---- MODULE Spec2Model ----
(***************************************************************************)
(* A model of the separate-chaining HashMap (src/HashMap/HashMap.py), the  *)
(* DoublyLinkedList (src/Linked List/DoublyLinkedList.py), the queue       *)
(* (src/Queue/Queue.py) and the stack (src/Stack/Stack.py).  Every method  *)
(* is a pure operator from the object's state to the state after the call  *)
(* together with the exception it raised, and one action per method        *)
(* applies it.                                                             *)
(***************************************************************************)
EXTENDS Integers, Sequences, FiniteSets, TLC

\* ------------------------------------------------------------------ bounds
MaxCapacity == 4     \* HashMap(capacity) is built with capacity in 1..MaxCapacity
NumIntKeys == 1      \* the int keys are 10, 9, ...: NumIntKeys of them
MaxValue == 2        \* stored values are 1..MaxValue
MaxNodes == 3        \* at most MaxNodes live Node objects of a list
MaxLinked == 4       \* at most MaxLinked live Node objects of a queue or a stack

\* Python's None, as a value, a node reference and "no entry".
None == 0

Values == 1..MaxValue

\* ------------------------------------------------------------------ keys
\* A key is a Python value: a str (its code points) or an int.  Two keys are
\* equal (k == key) iff they are the same value of the same type, so the
\* int 10 and the str "10" are different keys with the same string form.
StrKey(s) == [t |-> "str", s |-> s, n |-> 0]
IntKey(n) == [t |-> "int", s |-> <<>>, n |-> n]

\* "ab", "10", and the ints 10, 9, ...
Keys == {StrKey(<<97, 98>>), StrKey(<<49, 48>>)}
          \cup {IntKey(10 - i) : i \in 0..(NumIntKeys - 1)}

\* str(n) of an int: its decimal digits, most significant first, "-" in front
\* of a negative one.
RECURSIVE Digits(_)
Digits(n) == IF n < 10 THEN <<48 + n>>
             ELSE Append(Digits(n \div 10), 48 + (n % 10))

str(key) == IF key.t = "str" THEN key.s
            ELSE IF key.n < 0 THEN <<45>> \o Digits(0 - key.n)
            ELSE Digits(key.n)

\* ------------------------------------------------------------------ HashMap
HashMultiplier == 31

\* The fold with the multiplication by 31 left out.
RECURSIVE HashFold_noMul(_, _, _)
HashFold_noMul(key_string, i, capacity) ==
    IF i = 0 THEN 0
    ELSE (HashFold_noMul(key_string, i - 1, capacity) + key_string[i]) % capacity

\* The for loop of _hash_function over the first i characters of key_string.
RECURSIVE HashFold(_, _, _)
HashFold(key_string, i, capacity) ==
    IF i = 0 THEN 0
    ELSE (HashFold(key_string, i - 1, capacity) * HashMultiplier + key_string[i])
            % capacity

hash_function(capacity, key) ==
    LET key_string == str(key)
    IN  HashFold(key_string, Len(key_string), capacity)

\* HashMap.__init__
HashMap_init(capacity) ==
    [capacity |-> capacity, size |-> 0, buckets |-> [i \in 1..capacity |-> <<>>]]

\* self.buckets[index], Python's index 0 being the first bucket.
BucketOf(m, key) == m.buckets[hash_function(m.capacity, key) + 1]

\* The position (1-based) of the first pair of bucket whose key equals key, or
\* 0: where the loops "for i, (k, v) in enumerate(bucket): if k == key" stop.
RECURSIVE FindFrom(_, _, _)
FindFrom(bucket, key, i) ==
    IF i > Len(bucket) THEN 0
    ELSE IF bucket[i][1] = key THEN i
    ELSE FindFrom(bucket, key, i + 1)

Find(bucket, key) == FindFrom(bucket, key, 1)

HashMap_len(m) == m.size

HashMap_contains(m, key) == Find(BucketOf(m, key), key) # 0

\* del bucket[i]
DelAt(bucket, i) == SubSeq(bucket, 1, i - 1) \o SubSeq(bucket, i + 1, Len(bucket))

\* put without the search for the key: the pair is always appended.
HashMap_put_always_append(m, key, value) ==
    LET b == hash_function(m.capacity, key) + 1
    IN  [m EXCEPT !.buckets[b] = Append(@, <<key, value>>), !.size = @ + 1]

\* put that replaces a stored key by deleting its pair and appending the new one.
HashMap_put_moveToEnd(m, key, value) ==
    LET b == hash_function(m.capacity, key) + 1
        i == Find(m.buckets[b], key)
    IN  IF i # 0
        THEN [m EXCEPT !.buckets[b] = Append(DelAt(@, i), <<key, value>>)]
        ELSE [m EXCEPT !.buckets[b] = Append(@, <<key, value>>), !.size = @ + 1]

HashMap_put(m, key, value) ==
    LET b == hash_function(m.capacity, key) + 1
        i == Find(m.buckets[b], key)
    IN  IF i # 0
        THEN [m EXCEPT !.buckets[b][i] = <<key, value>>]
        ELSE [m EXCEPT !.buckets[b] = Append(@, <<key, value>>), !.size = @ + 1]

HashMap_get(m, key) ==
    LET bucket == BucketOf(m, key)
        i == Find(bucket, key)
    IN  IF i # 0 THEN [err |-> "none", ret |-> bucket[i][2]]
        ELSE [err |-> "KeyError", ret |-> None]

\* remove that forgets "self.size -= 1".
HashMap_remove_noSize(m, key) ==
    LET b == hash_function(m.capacity, key) + 1
        i == Find(m.buckets[b], key)
    IN  IF i # 0
        THEN [err |-> "none", m |-> [m EXCEPT !.buckets[b] = DelAt(@, i)]]
        ELSE [err |-> "KeyError", m |-> m]

\* remove without the loop's else clause: an absent key is passed over in silence.
HashMap_remove_silent(m, key) ==
    LET b == hash_function(m.capacity, key) + 1
        i == Find(m.buckets[b], key)
    IN  IF i # 0
        THEN [err |-> "none",
              m |-> [m EXCEPT !.buckets[b] = DelAt(@, i), !.size = @ - 1]]
        ELSE [err |-> "none", m |-> m]

HashMap_remove(m, key) ==
    LET b == hash_function(m.capacity, key) + 1
        i == Find(m.buckets[b], key)
    IN  IF i # 0
        THEN [err |-> "none",
              m |-> [m EXCEPT !.buckets[b] = DelAt(@, i), !.size = @ - 1]]
        ELSE [err |-> "KeyError", m |-> m]

\* keys(), values(), items(): "for bucket in self.buckets: for k, v in bucket:
\* list.append(...)", over the first n buckets.
KeysOf(bucket) == [i \in 1..Len(bucket) |-> bucket[i][1]]

ValuesOf(bucket) == [i \in 1..Len(bucket) |-> bucket[i][2]]

\* keys() that walks the buckets from the last to the first.
RECURSIVE KeysUpTo_reversed(_, _)
KeysUpTo_reversed(m, n) ==
    IF n = 0 THEN <<>> ELSE KeysOf(m.buckets[n]) \o KeysUpTo_reversed(m, n - 1)

RECURSIVE KeysUpTo(_, _)
KeysUpTo(m, n) == IF n = 0 THEN <<>> ELSE KeysUpTo(m, n - 1) \o KeysOf(m.buckets[n])

RECURSIVE ValuesUpTo(_, _)
ValuesUpTo(m, n) ==
    IF n = 0 THEN <<>> ELSE ValuesUpTo(m, n - 1) \o ValuesOf(m.buckets[n])

RECURSIVE ItemsUpTo(_, _)
ItemsUpTo(m, n) == IF n = 0 THEN <<>> ELSE ItemsUpTo(m, n - 1) \o m.buckets[n]

HashMap_keys(m) == KeysUpTo(m, m.capacity)

HashMap_values(m) == ValuesUpTo(m, m.capacity)

HashMap_items(m) == ItemsUpTo(m, m.capacity)

\* ------------------------------------------------------------------ DoublyLinkedList
\* The list object is its head and tail references and the heap of its Node
\* objects: nodes[id] = [value, next, previous], a reference being a node id
\* or None.
Node(value) == [value |-> value, next |-> None, previous |-> None]

NoNodes == [i \in {} |-> Node(None)]

\* DoublyLinkedList.__init__
DLL_init == [head |-> None, tail |-> None, nodes |-> NoNodes]

\* The identity of the object Node(value) creates: the lowest unused id.
NewId(l) == CHOOSE i \in 1..(MaxNodes + 1) :
                /\ i \notin DOMAIN l.nodes
                /\ \A j \in 1..(i - 1) : j \in DOMAIN l.nodes

\* Reference counting: a node no reference chain from the list object reaches
\* is reclaimed when the call returns.
RECURSIVE ReachFrom(_, _, _)
ReachFrom(nodes, set, fuel) ==
    LET more == {nodes[n].next : n \in set} \cup {nodes[n].previous : n \in set}
        nxt == set \cup (more \cap DOMAIN nodes)
    IN  IF fuel = 0 \/ nxt = set THEN set ELSE ReachFrom(nodes, nxt, fuel - 1)

Collect(l) ==
    LET live == ReachFrom(l.nodes, {l.head, l.tail} \cap DOMAIN l.nodes,
                          Cardinality(DOMAIN l.nodes))
    IN  [l EXCEPT !.nodes = [n \in live |-> l.nodes[n]]]

\* __len__: "while last is not None: counter += 1; last = last.next"
RECURSIVE LenFrom(_, _)
LenFrom(l, last) == IF last = None THEN 0 ELSE 1 + LenFrom(l, l.nodes[last].next)

DLL_len(l) == LenFrom(l, l.head)

\* __contains__
RECURSIVE ContainsFrom(_, _, _)
ContainsFrom(l, last, value) ==
    IF last = None THEN FALSE
    ELSE IF l.nodes[last].value = value THEN TRUE
    ELSE ContainsFrom(l, l.nodes[last].next, value)

DLL_contains(l, value) == ContainsFrom(l, l.head, value)

\* append that forgets "new_node.previous = self.tail".
DLL_append_noPrevious(l, value) ==
    LET new_node == NewId(l)
        nodes1 == l.nodes @@ (new_node :> Node(value))
    IN  IF l.head = None
        THEN [head |-> new_node, tail |-> new_node, nodes |-> nodes1]
        ELSE [head |-> l.head, tail |-> new_node,
              nodes |-> [nodes1 EXCEPT ![l.tail].next = new_node]]

DLL_append(l, value) ==
    LET new_node == NewId(l)
        nodes1 == l.nodes @@ (new_node :> Node(value))
    IN  IF l.head = None
        THEN [head |-> new_node, tail |-> new_node, nodes |-> nodes1]
        ELSE [head |-> l.head, tail |-> new_node,
              nodes |-> [nodes1 EXCEPT ![l.tail].next = new_node,
                                       ![new_node].previous = l.tail]]

DLL_prepend(l, value) ==
    LET first_node == NewId(l)
        nodes1 == l.nodes @@ (first_node :> [Node(value) EXCEPT !.next = l.head])
    IN  IF l.head # None
        THEN [head |-> first_node, tail |-> l.tail,
              nodes |-> [nodes1 EXCEPT ![l.head].previous = first_node]]
        ELSE [head |-> first_node, tail |-> first_node, nodes |-> nodes1]

\* "for i in range(steps): if last.next is None: raise ValueError; last =
\* last.next", started at last.  Reading last.next of None is an AttributeError.
RECURSIVE Walk(_, _, _)
Walk(l, last, steps) ==
    IF steps <= 0 THEN [err |-> "none", last |-> last]
    ELSE IF last = None THEN [err |-> "AttributeError", last |-> None]
    ELSE IF l.nodes[last].next = None THEN [err |-> "ValueError", last |-> None]
    ELSE Walk(l, l.nodes[last].next, steps - 1)

\* The linking of insert without "self.tail = new_node".
InsertAfter_noTail(l, last, value) ==
    LET new_node == NewId(l)
        nxt == l.nodes[last].next
        nodes1 == l.nodes @@ (new_node :>
                     [value |-> value, next |-> nxt, previous |-> last])
    IN  IF nxt # None
        THEN [head |-> l.head, tail |-> l.tail,
              nodes |-> [nodes1 EXCEPT ![nxt].previous = new_node,
                                       ![last].next = new_node]]
        ELSE [head |-> l.head, tail |-> l.tail,
              nodes |-> [nodes1 EXCEPT ![last].next = new_node]]

\* Lines 77-84: link a new node after last.
InsertAfter(l, last, value) ==
    LET new_node == NewId(l)
        nxt == l.nodes[last].next
        nodes1 == l.nodes @@ (new_node :>
                     [value |-> value, next |-> nxt, previous |-> last])
    IN  IF nxt # None
        THEN [head |-> l.head, tail |-> l.tail,
              nodes |-> [nodes1 EXCEPT ![nxt].previous = new_node,
                                       ![last].next = new_node]]
        ELSE [head |-> l.head, tail |-> new_node,
              nodes |-> [nodes1 EXCEPT ![last].next = new_node]]

\* insert without the "index == 0" branch.
DLL_insert_zeroAsOne(l, value, index) ==
    LET w == Walk(l, l.head, index - 1)
    IN  IF w.err # "none" THEN [err |-> w.err, l |-> l]
        ELSE IF w.last = None THEN [err |-> "AttributeError", l |-> l]
        ELSE [err |-> "none", l |-> InsertAfter(l, w.last, value)]

DLL_insert(l, value, index) ==
    IF index = 0 THEN [err |-> "none", l |-> DLL_prepend(l, value)]
    ELSE LET w == Walk(l, l.head, index - 1)
         IN  IF w.err # "none" THEN [err |-> w.err, l |-> l]
             ELSE IF w.last = None THEN [err |-> "AttributeError", l |-> l]
             ELSE [err |-> "none", l |-> InsertAfter(l, w.last, value)]

\* Lines 100-105 and 122-127: unlink the node after last.
UnlinkAfter(l, last) ==
    LET to_delete == l.nodes[last].next
        nxt == l.nodes[to_delete].next
        nodes1 == [l.nodes EXCEPT ![last].next = nxt]
    IN  IF nxt # None
        THEN [l EXCEPT !.nodes = [nodes1 EXCEPT ![nxt].previous = last]]
        ELSE [l EXCEPT !.nodes = nodes1, !.tail = last]

\* The while loop of delete without its return: it goes on after a removal.
RECURSIVE DeleteScan_all(_, _, _)
DeleteScan_all(l, last, value) ==
    LET nxt == l.nodes[last].next
    IN  IF nxt = None THEN l
        ELSE IF l.nodes[nxt].value = value
             THEN DeleteScan_all(UnlinkAfter(l, last), last, value)
        ELSE DeleteScan_all(l, nxt, value)

\* The while loop of delete, lines 98-107.
RECURSIVE DeleteScan(_, _, _)
DeleteScan(l, last, value) ==
    LET nxt == l.nodes[last].next
    IN  IF nxt = None THEN l
        ELSE IF l.nodes[nxt].value = value THEN UnlinkAfter(l, last)
        ELSE DeleteScan(l, nxt, value)

DLL_delete(l, value) ==
    LET last == l.head
    IN  IF last = None THEN l
        ELSE IF l.nodes[last].value = value
        THEN LET newhead == l.nodes[last].next
             IN  IF newhead # None
                 THEN [l EXCEPT !.head = newhead,
                                !.nodes[newhead].previous = None]
                 ELSE [l EXCEPT !.head = None, !.tail = None]
        ELSE DeleteScan(l, last, value)

\* pop that walks index steps, as get does, before it unlinks the next node.
DLL_pop_walkIndex(l, index) ==
    IF l.head = None THEN [err |-> "ValueError", l |-> l]
    ELSE LET w == Walk(l, l.head, index)
         IN  IF w.err # "none" THEN [err |-> w.err, l |-> l]
             ELSE IF l.nodes[w.last].next = None
                  THEN [err |-> "ValueError", l |-> l]
             ELSE [err |-> "none", l |-> UnlinkAfter(l, w.last)]

\* pop whose index 0 removes the head node.
DLL_pop_zeroRemovesHead(l, index) ==
    IF l.head = None THEN [err |-> "ValueError", l |-> l]
    ELSE IF index = 0
    THEN LET newhead == l.nodes[l.head].next
         IN  IF newhead # None
             THEN [err |-> "none",
                   l |-> [l EXCEPT !.head = newhead,
                                   !.nodes[newhead].previous = None]]
             ELSE [err |-> "none", l |-> [l EXCEPT !.head = None, !.tail = None]]
    ELSE LET w == Walk(l, l.head, index - 1)
         IN  IF w.err # "none" THEN [err |-> w.err, l |-> l]
             ELSE IF l.nodes[w.last].next = None
                  THEN [err |-> "ValueError", l |-> l]
             ELSE [err |-> "none", l |-> UnlinkAfter(l, w.last)]

DLL_pop(l, index) ==
    IF l.head = None THEN [err |-> "ValueError", l |-> l]
    ELSE LET w == Walk(l, l.head, index - 1)
         IN  IF w.err # "none" THEN [err |-> w.err, l |-> l]
             ELSE IF l.nodes[w.last].next = None
                  THEN [err |-> "ValueError", l |-> l]
             ELSE [err |-> "none", l |-> UnlinkAfter(l, w.last)]

DLL_get(l, index) ==
    IF l.head = None THEN [err |-> "ValueError", ret |-> None]
    ELSE LET w == Walk(l, l.head, index)
         IN  IF w.err # "none" THEN [err |-> w.err, ret |-> None]
             ELSE [err |-> "none", ret |-> l.nodes[w.last].value]

\* ------------------------------------------------------------------ Queue
\* The queue object (the class Queue.py names Stack) is its front and rear
\* references, its size and the heap of its Node objects: nodes[id] =
\* [value, next].
SNode(value) == [value |-> value, next |-> None]

NoSNodes == [i \in {} |-> SNode(None)]

\* The identity of the object Node(value) creates: the lowest unused id.
NewSNode(nodes) == CHOOSE i \in 1..(MaxLinked + 1) :
                       /\ i \notin DOMAIN nodes
                       /\ \A j \in 1..(i - 1) : j \in DOMAIN nodes

\* The nodes a chain of next references reaches from the nodes of set.
RECURSIVE ReachNext(_, _, _)
ReachNext(nodes, set, fuel) ==
    LET nxt == set \cup ({nodes[n].next : n \in set} \cap DOMAIN nodes)
    IN  IF fuel = 0 \/ nxt = set THEN set ELSE ReachNext(nodes, nxt, fuel - 1)

\* Queue.py, Stack.__init__
Queue_init == [front |-> None, rear |-> None, size |-> 0, nodes |-> NoSNodes]

\* Reclamation of the nodes the queue no longer references.
QueueCollect(q) ==
    LET live == ReachNext(q.nodes, {q.front, q.rear} \cap DOMAIN q.nodes,
                          Cardinality(DOMAIN q.nodes))
    IN  [q EXCEPT !.nodes = [n \in live |-> q.nodes[n]]]

Queue_len(q) == q.size

Queue_is_empty(q) == q.front = None

\* enqueue that links the new node in front of the queue.
Queue_enqueue_atFront(q, value) ==
    LET new_node == NewSNode(q.nodes)
    IN  IF q.rear = None
        THEN [front |-> new_node, rear |-> new_node, size |-> q.size + 1,
              nodes |-> q.nodes @@ (new_node :> SNode(value))]
        ELSE [front |-> new_node, rear |-> q.rear, size |-> q.size + 1,
              nodes |-> q.nodes @@ (new_node :> [value |-> value, next |-> q.front])]

Queue_enqueue(q, value) ==
    LET new_node == NewSNode(q.nodes)
        nodes1 == q.nodes @@ (new_node :> SNode(value))
    IN  IF q.rear = None
        THEN [front |-> new_node, rear |-> new_node, size |-> q.size + 1,
              nodes |-> nodes1]
        ELSE [front |-> q.front, rear |-> new_node, size |-> q.size + 1,
              nodes |-> [nodes1 EXCEPT ![q.rear].next = new_node]]

\* dequeue without "if self.front is None: self.rear = None".
Queue_dequeue_keepRear(q) ==
    IF q.front = None THEN [err |-> "IndexError", ret |-> None, q |-> q]
    ELSE [err |-> "none", ret |-> q.nodes[q.front].value,
          q |-> [q EXCEPT !.front = q.nodes[q.front].next, !.size = @ - 1]]

\* dequeue that takes 1 from size before it looks at front.
Queue_dequeue_sizeFirst(q) ==
    IF q.front = None
    THEN [err |-> "IndexError", ret |-> None, q |-> [q EXCEPT !.size = @ - 1]]
    ELSE LET front1 == q.nodes[q.front].next
         IN  [err |-> "none", ret |-> q.nodes[q.front].value,
              q |-> [q EXCEPT !.front = front1,
                              !.rear = IF front1 = None THEN None ELSE @,
                              !.size = @ - 1]]

Queue_dequeue(q) ==
    IF q.front = None THEN [err |-> "IndexError", ret |-> None, q |-> q]
    ELSE LET front1 == q.nodes[q.front].next
         IN  [err |-> "none", ret |-> q.nodes[q.front].value,
              q |-> [q EXCEPT !.front = front1,
                              !.rear = IF front1 = None THEN None ELSE @,
                              !.size = @ - 1]]

Queue_peek(q) ==
    IF q.front = None THEN [err |-> "IndexError", ret |-> None]
    ELSE [err |-> "none", ret |-> q.nodes[q.front].value]

\* ------------------------------------------------------------------ Stack
\* The stack object is its top reference, its size and the heap of its nodes.
Stack_init == [top |-> None, size |-> 0, nodes |-> NoSNodes]

StackCollect(st) ==
    LET live == ReachNext(st.nodes, {st.top} \cap DOMAIN st.nodes,
                          Cardinality(DOMAIN st.nodes))
    IN  [st EXCEPT !.nodes = [n \in live |-> st.nodes[n]]]

Stack_len(st) == st.size

Stack_is_empty(st) == st.top = None

\* push without "new_node.next = self.top".
Stack_push_noLink(st, value) ==
    LET new_node == NewSNode(st.nodes)
    IN  [top |-> new_node, size |-> st.size + 1,
         nodes |-> st.nodes @@ (new_node :> SNode(value))]

\* push without "self.size += 1".
Stack_push_noSize(st, value) ==
    LET new_node == NewSNode(st.nodes)
    IN  [top |-> new_node, size |-> st.size,
         nodes |-> st.nodes @@ (new_node :> [value |-> value, next |-> st.top])]

Stack_push(st, value) ==
    LET new_node == NewSNode(st.nodes)
    IN  [top |-> new_node, size |-> st.size + 1,
         nodes |-> st.nodes @@ (new_node :> [value |-> value, next |-> st.top])]

Stack_pop(st) ==
    IF st.top = None THEN [err |-> "ValueError", ret |-> None, st |-> st]
    ELSE [err |-> "none", ret |-> st.nodes[st.top].value,
          st |-> [st EXCEPT !.top = st.nodes[st.top].next, !.size = @ - 1]]

\* peek without the check of an empty stack: it returns None.
Stack_peek_noCheck(st) ==
    IF st.top = None THEN [err |-> "none", ret |-> None]
    ELSE [err |-> "none", ret |-> st.nodes[st.top].value]

Stack_peek(st) ==
    IF st.top = None THEN [err |-> "ValueError", ret |-> None]
    ELSE [err |-> "none", ret |-> st.nodes[st.top].value]

\* ------------------------------------------------------------------ state
VARIABLES
    hashmap,    \* the HashMap object: capacity, size, buckets
    ref,        \* reference map: key -> value of the latest put not removed, or None
    order,      \* the keys now stored, in the order of the put that stored them
    mop,        \* the last HashMap call: name, arguments, whether the reference
                \* map had the key before it, outcome
    list,       \* the DoublyLinkedList object: head, tail and its nodes
    lop,        \* the last DoublyLinkedList call: name, arguments, outcome
    queue,      \* the queue object: front, rear, size and its nodes
    qref,       \* reference queue: the values enqueued and not yet dequeued, oldest first
    qbalance,   \* the number of enqueues minus the number of successful dequeues
    qop,        \* the last queue call: name, argument, outcome
    stack,      \* the stack object: top, size and its nodes
    sref,       \* reference stack: the values pushed and not yet popped, latest first
    sbalance,   \* the number of pushes minus the number of successful pops
    sop         \* the last stack call: name, argument, outcome

mapVars == <<hashmap, ref, order, mop>>
listVars == <<list, lop>>
queueVars == <<queue, qref, qbalance, qop>>
stackVars == <<stack, sref, sbalance, sop>>
vars == <<hashmap, ref, order, mop, list, lop, queue, qref, qbalance, qop,
          stack, sref, sbalance, sop>>

\* ------------------------------------------------------------------ HashMap calls
\* The key field of a record of no call.
NoKey == [t |-> "none", s |-> <<>>, n |-> 0]

NoOp == [name |-> "init", key |-> NoKey, value |-> None, had |-> FALSE,
         err |-> "none", ret |-> None, found |-> FALSE]

MapInit ==
    /\ \E capacity \in 1..MaxCapacity : hashmap = HashMap_init(capacity)
    /\ ref = [k \in Keys |-> None]
    /\ order = <<>>
    /\ mop = NoOp

\* The map as constructed and never used.
MapIdle ==
    /\ hashmap = HashMap_init(1)
    /\ ref = [k \in Keys |-> None]
    /\ order = <<>>
    /\ mop = NoOp

RemoveKey(seq, key) == SelectSeq(seq, LAMBDA k : k # key)

MapPut(key, value) ==
    /\ hashmap' = HashMap_put(hashmap, key, value)
    /\ ref' = [ref EXCEPT ![key] = value]
    /\ order' = IF ref[key] = None THEN Append(order, key) ELSE order
    /\ mop' = [name |-> "put", key |-> key, value |-> value,
               had |-> ref[key] # None, err |-> "none", ret |-> None,
               found |-> FALSE]
    /\ UNCHANGED <<listVars, queueVars, stackVars>>

MapGet(key) ==
    LET r == HashMap_get(hashmap, key)
    IN  /\ mop' = [name |-> "get", key |-> key, value |-> None,
                   had |-> ref[key] # None, err |-> r.err, ret |-> r.ret,
                   found |-> FALSE]
        /\ UNCHANGED <<hashmap, ref, order>>
        /\ UNCHANGED <<listVars, queueVars, stackVars>>

MapRemove(key) ==
    LET r == HashMap_remove(hashmap, key)
    IN  /\ hashmap' = r.m
        /\ ref' = [ref EXCEPT ![key] = None]
        /\ order' = RemoveKey(order, key)
        /\ mop' = [name |-> "remove", key |-> key, value |-> None,
                   had |-> ref[key] # None, err |-> r.err, ret |-> None,
                   found |-> FALSE]
        /\ UNCHANGED <<listVars, queueVars, stackVars>>

MapContains(key) ==
    /\ mop' = [name |-> "contains", key |-> key, value |-> None,
               had |-> ref[key] # None, err |-> "none", ret |-> None,
               found |-> HashMap_contains(hashmap, key)]
    /\ UNCHANGED <<hashmap, ref, order>>
    /\ UNCHANGED <<listVars, queueVars, stackVars>>

MapNext ==
    \/ \E key \in Keys, value \in Values : MapPut(key, value)
    \/ \E key \in Keys : MapGet(key)
    \/ \E key \in Keys : MapRemove(key)
    \/ \E key \in Keys : MapContains(key)

\* ------------------------------------------------------------------ HashMap claims
\* The (bucket, position) places of the map, and the keys stored there.
Places(m) == {<<b, i>> \in (1..m.capacity) \X (1..Cardinality(Keys) + 1) :
                i <= Len(m.buckets[b])}

RECURSIVE TotalLen(_, _)
TotalLen(m, n) == IF n = 0 THEN 0 ELSE TotalLen(m, n - 1) + Len(m.buckets[n])

Present == {k \in Keys : ref[k] # None}

\* C1: after every sequence of put and remove calls the map agrees with the
\* reference map: len() is the number of keys the reference holds,
\* contains(k) is true exactly for those keys, get(k) returns the value of
\* the latest put(k, _) not followed by remove(k) and fails for the other keys.
C1_AgreesWithReference ==
    /\ HashMap_len(hashmap) = Cardinality(Present)
    /\ \A k \in Keys : HashMap_contains(hashmap, k) <=> k \in Present
    /\ \A k \in Present : HashMap_get(hashmap, k) = [err |-> "none", ret |-> ref[k]]
    /\ \A k \in Keys \ Present : HashMap_get(hashmap, k).err = "KeyError"

\* A remove has succeeded and left two keys, one of them with the value MaxValue.
C1_Witness ==
    /\ mop.name = "remove" /\ mop.err = "none"
    /\ Cardinality(Present) >= 2
    /\ \E k \in Present : ref[k] = MaxValue

\* C2: every key is stored at one (bucket, position) at most, and size is the
\* total number of pairs in the buckets.
C2_KeysUniqueAndSizeCounts ==
    /\ \A p, q \in Places(hashmap) :
          hashmap.buckets[p[1]][p[2]][1] = hashmap.buckets[q[1]][q[2]][1] => p = q
    /\ hashmap.size = TotalLen(hashmap, hashmap.capacity)

\* A put of a key the map already held, into a bucket of two pairs or more.
C2_Witness ==
    /\ mop.name = "put" /\ mop.had
    /\ Len(BucketOf(hashmap, mop.key)) >= 2

\* C3: put of a stored key replaces that key's value at its position and
\* changes nothing else (size, the bucket's order, the other buckets and
\* pairs); put of an absent key appends the pair to its bucket, adds 1 to
\* size and changes nothing else.
C3_PutFrame ==
    [][mop'.name = "put" =>
        LET key == mop'.key
            value == mop'.value
            b == hash_function(hashmap.capacity, key) + 1
            old == hashmap.buckets[b]
            new == hashmap'.buckets[b]
            stored == \E p \in Places(hashmap) : hashmap.buckets[p[1]][p[2]][1] = key
        IN  /\ hashmap'.capacity = hashmap.capacity
            /\ \A c \in 1..hashmap.capacity : c # b =>
                  hashmap'.buckets[c] = hashmap.buckets[c]
            /\ IF stored
               THEN /\ hashmap'.size = hashmap.size
                    /\ Len(new) = Len(old)
                    /\ \A i \in 1..Len(old) :
                          new[i] = IF old[i][1] = key THEN <<key, value>> ELSE old[i]
               ELSE /\ hashmap'.size = hashmap.size + 1
                    /\ new = Append(old, <<key, value>>)]_vars

\* A put has overwritten the first pair of a bucket that holds another pair
\* after it.
C3_Witness ==
    /\ mop.name = "put" /\ mop.had
    /\ Len(BucketOf(hashmap, mop.key)) >= 2
    /\ BucketOf(hashmap, mop.key)[1] = <<mop.key, mop.value>>

\* C4: get(key) and remove(key) raise KeyError exactly when the key is not in
\* the map; on a stored key get raises nothing, and remove deletes that key's
\* pair and no other and takes 1 from size.
C4_KeyErrorIffAbsent ==
    [][/\ mop'.name \in {"get", "remove"} =>
            /\ mop'.err \in {"none", "KeyError"}
            /\ mop'.err = "KeyError" <=> ref[mop'.key] = None
       /\ mop'.name = "get" /\ mop'.err = "none" =>
            /\ mop'.ret = ref[mop'.key]
            /\ hashmap' = hashmap
       /\ mop'.name = "remove" /\ mop'.err = "none" =>
            /\ hashmap'.size = hashmap.size - 1
            /\ hashmap'.capacity = hashmap.capacity
            /\ \A c \in 1..hashmap.capacity :
                  hashmap'.buckets[c] =
                     SelectSeq(hashmap.buckets[c], LAMBDA kv : kv[1] # mop'.key)
            /\ Len(HashMap_items(hashmap')) = Len(HashMap_items(hashmap)) - 1]_vars

\* A remove of an absent key has failed on a map that holds other keys.
C4_Witness ==
    /\ mop.name = "remove" /\ mop.err = "KeyError"
    /\ hashmap.size >= 2

\* The keys of order that hash to the buckets 0..n-1, bucket by bucket.
RECURSIVE ExpectedKeys(_)
ExpectedKeys(n) ==
    IF n = 0 THEN <<>>
    ELSE ExpectedKeys(n - 1) \o
           SelectSeq(order, LAMBDA k : hash_function(hashmap.capacity, k) = n - 1)

RECURSIVE Pow31(_)
Pow31(n) == IF n = 0 THEN 1 ELSE HashMultiplier * Pow31(n - 1)

\* The polynomial s[1]*31^(n-1) + ... + s[n] of the code points of s.
RECURSIVE Poly(_, _)
Poly(s, i) == IF i = 0 THEN 0 ELSE Poly(s, i - 1) + s[i] * Pow31(Len(s) - i)

\* C6: the bucket index of a key is the Horner fold of the code points of its
\* string form modulo capacity, that is the polynomial in 31 of those code
\* points modulo capacity; it depends only on the string form and the
\* capacity, lies in 0..capacity-1, and every stored pair is in the bucket
\* of its key's index.
C6_HashIsHornerFold ==
    /\ \A k \in Keys :
          /\ hash_function(hashmap.capacity, k)
                = Poly(str(k), Len(str(k))) % hashmap.capacity
          /\ hash_function(hashmap.capacity, k) \in 0..(hashmap.capacity - 1)
    /\ \A k1, k2 \in Keys : str(k1) = str(k2) =>
          hash_function(hashmap.capacity, k1) = hash_function(hashmap.capacity, k2)
    /\ \A p \in Places(hashmap) :
          hash_function(hashmap.capacity, hashmap.buckets[p[1]][p[2]][1]) = p[1] - 1

\* A capacity for which 31 is not 1 modulo it, with pairs in two buckets, one
\* of which holds the int 10 and the str "10".
C6_Witness ==
    /\ (HashMultiplier % hashmap.capacity) \notin {0, 1}
    /\ \E b, c \in 1..hashmap.capacity :
          b # c /\ Len(hashmap.buckets[b]) >= 2 /\ hashmap.buckets[c] # <<>>

\* ------------------------------------------------------------------ list calls
Indexes == (0 - 1)..(MaxNodes + 1)

NoListOp == [name |-> "init", value |-> None, index |-> None, err |-> "none",
             ret |-> None, found |-> FALSE]

ListInit ==
    /\ list = DLL_init
    /\ lop = NoListOp

\* A Node object can be created.
CanAllocate == Cardinality(DOMAIN list.nodes) < MaxNodes

ListAppend(value) ==
    /\ CanAllocate
    /\ list' = Collect(DLL_append(list, value))
    /\ lop' = [name |-> "append", value |-> value, index |-> None, err |-> "none",
               ret |-> None, found |-> FALSE]
    /\ UNCHANGED <<mapVars, queueVars, stackVars>>

ListPrepend(value) ==
    /\ CanAllocate
    /\ list' = Collect(DLL_prepend(list, value))
    /\ lop' = [name |-> "prepend", value |-> value, index |-> None, err |-> "none",
               ret |-> None, found |-> FALSE]
    /\ UNCHANGED <<mapVars, queueVars, stackVars>>

ListInsert(value, index) ==
    LET r == DLL_insert(list, value, index)
    IN  /\ CanAllocate
        /\ list' = Collect(r.l)
        /\ lop' = [name |-> "insert", value |-> value, index |-> index,
                   err |-> r.err, ret |-> None, found |-> FALSE]
        /\ UNCHANGED <<mapVars, queueVars, stackVars>>

ListDelete(value) ==
    /\ list' = Collect(DLL_delete(list, value))
    /\ lop' = [name |-> "delete", value |-> value, index |-> None, err |-> "none",
               ret |-> None, found |-> FALSE]
    /\ UNCHANGED <<mapVars, queueVars, stackVars>>

ListPop(index) ==
    LET r == DLL_pop(list, index)
    IN  /\ list' = Collect(r.l)
        /\ lop' = [name |-> "pop", value |-> None, index |-> index, err |-> r.err,
                   ret |-> None, found |-> FALSE]
        /\ UNCHANGED <<mapVars, queueVars, stackVars>>

ListGet(index) ==
    LET r == DLL_get(list, index)
    IN  /\ lop' = [name |-> "get", value |-> None, index |-> index, err |-> r.err,
                   ret |-> r.ret, found |-> FALSE]
        /\ UNCHANGED <<list, mapVars, queueVars, stackVars>>

ListContains(value) ==
    /\ lop' = [name |-> "contains", value |-> value, index |-> None,
               err |-> "none", ret |-> None, found |-> DLL_contains(list, value)]
    /\ UNCHANGED <<list, mapVars, queueVars, stackVars>>

ListLen ==
    /\ lop' = [name |-> "len", value |-> None, index |-> None, err |-> "none",
               ret |-> DLL_len(list), found |-> FALSE]
    /\ UNCHANGED <<list, mapVars, queueVars, stackVars>>

ListNext ==
    \/ \E value \in Values : ListAppend(value)
    \/ \E value \in Values : ListPrepend(value)
    \/ \E value \in Values, index \in Indexes : ListInsert(value, index)
    \/ \E value \in Values : ListDelete(value)
    \/ \E index \in Indexes : ListPop(index)
    \/ \E index \in Indexes : ListGet(index)
    \/ \E value \in Values : ListContains(value)
    \/ ListLen

\* ------------------------------------------------------------------ list claims
\* The nodes met following next from n, at most fuel of them.
RECURSIVE ChainFrom(_, _, _)
ChainFrom(l, n, fuel) ==
    IF n = None \/ n \notin DOMAIN l.nodes \/ fuel = 0 THEN <<>>
    ELSE <<n>> \o ChainFrom(l, l.nodes[n].next, fuel - 1)

\* The nodes of the list from head on; one more than there are nodes when
\* next leads round a cycle.
Chain(l) == ChainFrom(l, l.head, Cardinality(DOMAIN l.nodes) + 1)

\* The element sequence of the list.
Content(l) == LET c == Chain(l) IN [i \in 1..Len(c) |-> l.nodes[c[i]].value]

\* Following next from head ends at None without meeting a node twice.
Acyclic(l) ==
    LET c == Chain(l)
    IN  /\ \A i, j \in 1..Len(c) : c[i] = c[j] => i = j
        /\ c # <<>> => l.nodes[c[Len(c)]].next = None

\* C7: after every call, failed ones included: head is None iff tail is None
\* iff length() is 0; head.previous and tail.next are None; every node n met
\* from head has n.next None or n.next.previous = n, and n.previous None or
\* n.previous.next = n; following next from head reaches tail and meets no
\* node twice.
C7_ShapeInvariant ==
    LET c == Chain(list)
    IN  /\ Acyclic(list)
        /\ (list.head = None) <=> (list.tail = None)
        /\ (list.head = None) <=> (DLL_len(list) = 0)
        /\ list.head # None =>
              /\ list.head \in DOMAIN list.nodes
              /\ list.tail \in DOMAIN list.nodes
              /\ list.nodes[list.head].previous = None
              /\ list.nodes[list.tail].next = None
              /\ c[Len(c)] = list.tail
        /\ \A i \in 1..Len(c) :
              LET n == list.nodes[c[i]]
              IN  /\ n.next = None \/ list.nodes[n.next].previous = c[i]
                  /\ n.previous = None \/ list.nodes[n.previous].next = c[i]

\* An insert has failed with ValueError on a list of MaxNodes - 1 nodes whose
\* first and last values differ.
C7_Witness ==
    /\ lop.name = "insert" /\ lop.err = "ValueError"
    /\ DLL_len(list) = MaxNodes - 1
    /\ list.nodes[list.head].value # list.nodes[list.tail].value

\* C8: insert(v, 0) leaves the list that prepend(v) leaves: the same element
\* sequence, head, tail and links; on the empty list too.
C8_InsertZeroIsPrepend ==
    [][lop'.name = "insert" /\ lop'.index = 0 =>
          /\ lop'.err = "none"
          /\ list' = Collect(DLL_prepend(list, lop'.value))
          /\ Content(list') = <<lop'.value>> \o Content(list)
          /\ list'.nodes[list'.head].value = lop'.value
          /\ list'.tail = IF list.head = None THEN list'.head ELSE list.tail]_vars

\* insert(v, 0) has acted on a list that had two elements or more.
C8_Witness ==
    /\ lop.name = "insert" /\ lop.index = 0
    /\ DLL_len(list) >= 3

\* C9: get with index >= length, pop with index >= length or on the empty
\* list, and insert with index > length raise ValueError("Index out of
\* bounds") and no other error.
C9_UnreachableIndexRaisesValueError ==
    [][LET n == DLL_len(list)
       IN  \/ lop'.name = "get" /\ lop'.index >= n
           \/ lop'.name = "pop" /\ (lop'.index >= n \/ n = 0)
           \/ lop'.name = "insert" /\ lop'.index > n
           => lop'.err = "ValueError"]_vars

\* seq without its first element equal to v.
RemoveFirst(seq, v) ==
    IF \E i \in 1..Len(seq) : seq[i] = v
    THEN LET i == CHOOSE i \in 1..Len(seq) :
                     seq[i] = v /\ \A j \in 1..(i - 1) : seq[j] # v
         IN  SubSeq(seq, 1, i - 1) \o SubSeq(seq, i + 1, Len(seq))
    ELSE seq

\* C10: delete(value) removes the first node from head whose value is value
\* and no other, the other nodes keeping their order (later duplicates stay);
\* when no node holds value it raises nothing and leaves the element
\* sequence, head and tail as they were.
C10_DeleteRemovesFirst ==
    [][lop'.name = "delete" =>
          LET v == lop'.value
              c == Chain(list)
              first == CHOOSE i \in 1..Len(c) :
                          list.nodes[c[i]].value = v
                          /\ \A j \in 1..(i - 1) : list.nodes[c[j]].value # v
          IN  /\ lop'.err = "none"
              /\ Content(list') = RemoveFirst(Content(list), v)
              /\ IF \E i \in 1..Len(c) : list.nodes[c[i]].value = v
                 THEN Chain(list') = SubSeq(c, 1, first - 1)
                                        \o SubSeq(c, first + 1, Len(c))
                 ELSE list' = list]_vars

\* A delete has removed a node and left a later node of the same value, the
\* tail; the head holds another value.
C10_Witness ==
    /\ lop.name = "delete"
    /\ DLL_len(list) >= 2
    /\ list.nodes[list.head].value # lop.value
    /\ list.nodes[list.tail].value = lop.value

\* C11: on a list of n elements and for 1 <= index < n, pop(index) removes
\* the node after the node at 0-based position index - 1, that is the element
\* at 0-based position index, and no other; the other elements keep their
\* order, and the predecessor becomes tail when the last node was removed.
C11_PopRemovesAtIndex ==
    [][lop'.name = "pop" /\ lop'.index >= 1 /\ lop'.index < DLL_len(list) =>
          LET c == Chain(list)
              s == Content(list)
              i == lop'.index
          IN  /\ lop'.err = "none"
              /\ Chain(list') = SubSeq(c, 1, i) \o SubSeq(c, i + 2, Len(c))
              /\ Content(list') = SubSeq(s, 1, i) \o SubSeq(s, i + 2, Len(s))
              /\ list'.head = list.head
              /\ list'.tail = IF i = Len(c) - 1 THEN c[i] ELSE list.tail]_vars

\* pop(MaxNodes - 1) has removed the last of MaxNodes nodes.
C11_Witness ==
    /\ lop.name = "pop" /\ lop.err = "none" /\ lop.index = MaxNodes - 1
    /\ DLL_len(list) = MaxNodes - 1

\* seq with v put at 0-based position i.
InsertAt(seq, v, i) == SubSeq(seq, 1, i) \o <<v>> \o SubSeq(seq, i + 1, Len(seq))

\* C19: the list agrees with a reference sequence: append(v) adds v as the
\* last element, prepend(v) as the first, insert(v, index) for
\* 1 <= index <= length puts v at 0-based position index and shifts the
\* later elements (insert(v, length) is append(v) and moves tail); after
\* every call get(i) is the i-th element for 0 <= i < length, length() is the
\* length (get(length() - 1) after append(v) is v), and contains(v) holds iff
\* v occurs.
C19_AgreesWithSequence ==
    [][LET s == Content(list)
           t == Content(list')
           v == lop'.value
       IN  /\ lop'.name = "append" =>
                /\ t = Append(s, v)
                /\ DLL_get(list', DLL_len(list') - 1) = [err |-> "none", ret |-> v]
           /\ lop'.name = "prepend" => t = <<v>> \o s
           /\ lop'.name = "insert" /\ lop'.index >= 1 /\ lop'.index <= Len(s) =>
                /\ lop'.err = "none"
                /\ t = InsertAt(s, v, lop'.index)
                /\ lop'.index = Len(s) =>
                      /\ t = Append(s, v)
                      /\ list' = Collect(DLL_append(list, v))
           /\ DLL_len(list') = Len(t)
           /\ \A i \in 0..(Len(t) - 1) :
                 DLL_get(list', i) = [err |-> "none", ret |-> t[i + 1]]
           /\ \A w \in Values :
                 DLL_contains(list', w) <=> \E i \in 1..Len(t) : t[i] = w
           /\ list'.head # None => list'.tail = Chain(list')[Len(t)]]_vars

\* insert(v, length) has acted on a list of two elements or more.
C19_Witness ==
    /\ lop.name = "insert" /\ lop.err = "none"
    /\ lop.index >= 2
    /\ lop.index = DLL_len(list) - 1

\* C20: pop never removes the head node: for every index <= 1 (0 and the
\* negative ones too) pop(index) removes the node at 0-based position 1; on
\* a list of one element pop fails for every index; head is the same after
\* every pop, and no pop makes a non-empty list empty.
C20_PopKeepsHead ==
    [][lop'.name = "pop" =>
          LET c == Chain(list)
          IN  /\ list'.head = list.head
              /\ Len(c) >= 1 => DLL_len(list') >= 1
              /\ Len(c) <= 1 => lop'.err = "ValueError" /\ list' = list
              /\ Len(c) >= 2 /\ lop'.index <= 1 =>
                    /\ lop'.err = "none"
                    /\ Chain(list') = <<c[1]>> \o SubSeq(c, 3, Len(c))]_vars

\* pop(-1) has removed the second of three nodes or more.
C20_Witness ==
    /\ lop.name = "pop" /\ lop.err = "none" /\ lop.index < 0
    /\ DLL_len(list) >= 2

\* ------------------------------------------------------------------ queue calls
NoCall == [name |-> "init", value |-> None, err |-> "none", ret |-> None,
           found |-> FALSE]

QueueInit ==
    /\ queue = Queue_init
    /\ qref = <<>>
    /\ qbalance = 0
    /\ qop = NoCall

\* seq without its first element, when it has one.
Rest(seq) == IF seq = <<>> THEN <<>> ELSE Tail(seq)

QueueEnqueue(value) ==
    /\ Cardinality(DOMAIN queue.nodes) < MaxLinked
    /\ queue' = QueueCollect(Queue_enqueue(queue, value))
    /\ qref' = Append(qref, value)
    /\ qbalance' = qbalance + 1
    /\ qop' = [name |-> "enqueue", value |-> value, err |-> "none", ret |-> None,
               found |-> FALSE]
    /\ UNCHANGED <<mapVars, listVars, stackVars>>

QueueDequeue ==
    LET r == Queue_dequeue(queue)
    IN  /\ queue' = QueueCollect(r.q)
        /\ qref' = IF r.err = "none" THEN Rest(qref) ELSE qref
        /\ qbalance' = IF r.err = "none" THEN qbalance - 1 ELSE qbalance
        /\ qop' = [name |-> "dequeue", value |-> None, err |-> r.err,
                   ret |-> r.ret, found |-> FALSE]
        /\ UNCHANGED <<mapVars, listVars, stackVars>>

QueuePeek ==
    LET r == Queue_peek(queue)
    IN  /\ qop' = [name |-> "peek", value |-> None, err |-> r.err, ret |-> r.ret,
                   found |-> FALSE]
        /\ UNCHANGED <<queue, qref, qbalance, mapVars, listVars, stackVars>>

QueueIsEmpty ==
    /\ qop' = [name |-> "is_empty", value |-> None, err |-> "none", ret |-> None,
               found |-> Queue_is_empty(queue)]
    /\ UNCHANGED <<queue, qref, qbalance, mapVars, listVars, stackVars>>

QueueLen ==
    /\ qop' = [name |-> "len", value |-> None, err |-> "none",
               ret |-> Queue_len(queue), found |-> FALSE]
    /\ UNCHANGED <<queue, qref, qbalance, mapVars, listVars, stackVars>>

QueueNext ==
    \/ \E value \in Values : QueueEnqueue(value)
    \/ QueueDequeue
    \/ QueuePeek
    \/ QueueIsEmpty
    \/ QueueLen

\* ------------------------------------------------------------------ stack calls
StackInit ==
    /\ stack = Stack_init
    /\ sref = <<>>
    /\ sbalance = 0
    /\ sop = NoCall

StackPush(value) ==
    /\ Cardinality(DOMAIN stack.nodes) < MaxLinked
    /\ stack' = StackCollect(Stack_push(stack, value))
    /\ sref' = <<value>> \o sref
    /\ sbalance' = sbalance + 1
    /\ sop' = [name |-> "push", value |-> value, err |-> "none", ret |-> None,
               found |-> FALSE]
    /\ UNCHANGED <<mapVars, listVars, queueVars>>

StackPop ==
    LET r == Stack_pop(stack)
    IN  /\ stack' = StackCollect(r.st)
        /\ sref' = IF r.err = "none" THEN Rest(sref) ELSE sref
        /\ sbalance' = IF r.err = "none" THEN sbalance - 1 ELSE sbalance
        /\ sop' = [name |-> "pop", value |-> None, err |-> r.err, ret |-> r.ret,
                   found |-> FALSE]
        /\ UNCHANGED <<mapVars, listVars, queueVars>>

StackPeek ==
    LET r == Stack_peek(stack)
    IN  /\ sop' = [name |-> "peek", value |-> None, err |-> r.err, ret |-> r.ret,
                   found |-> FALSE]
        /\ UNCHANGED <<stack, sref, sbalance, mapVars, listVars, queueVars>>

StackIsEmpty ==
    /\ sop' = [name |-> "is_empty", value |-> None, err |-> "none", ret |-> None,
               found |-> Stack_is_empty(stack)]
    /\ UNCHANGED <<stack, sref, sbalance, mapVars, listVars, queueVars>>

StackLen ==
    /\ sop' = [name |-> "len", value |-> None, err |-> "none",
               ret |-> Stack_len(stack), found |-> FALSE]
    /\ UNCHANGED <<stack, sref, sbalance, mapVars, listVars, queueVars>>

StackNext ==
    \/ \E value \in Values : StackPush(value)
    \/ StackPop
    \/ StackPeek
    \/ StackIsEmpty
    \/ StackLen

\* ------------------------------------------------------------------ specifications
\* The HashMap alone, the list left as constructed.
SpecMapInit == MapInit /\ ListInit /\ QueueInit /\ StackInit
SpecMap == SpecMapInit /\ [][MapNext]_vars

\* The DoublyLinkedList alone, the map left as constructed.
SpecListInit == ListInit /\ MapIdle /\ QueueInit /\ StackInit
SpecList == SpecListInit /\ [][ListNext]_vars

\* Every container as constructed, the map with capacity 1.
AllInit == MapIdle /\ ListInit /\ QueueInit /\ StackInit

\* The queue alone.
SpecQueue == AllInit /\ [][QueueNext]_vars

\* The stack alone.
SpecStack == AllInit /\ [][StackNext]_vars

\* No call has been made on the container yet.
MapUnused == mop = NoOp
ListUnused == lop = NoListOp
QueueUnused == qop = NoCall
StackUnused == sop = NoCall

\* A program that works on the queue or on the stack.  The two containers
\* share no state, so a behaviour calls one of them only.
QueueOrStackNext ==
    \/ \E value \in Values : StackUnused /\ QueueEnqueue(value)
    \/ StackUnused /\ QueueDequeue
    \/ StackUnused /\ QueuePeek
    \/ StackUnused /\ QueueIsEmpty
    \/ StackUnused /\ QueueLen
    \/ \E value \in Values : QueueUnused /\ StackPush(value)
    \/ QueueUnused /\ StackPop
    \/ QueueUnused /\ StackPeek
    \/ QueueUnused /\ StackIsEmpty
    \/ QueueUnused /\ StackLen

SpecQueueOrStack == AllInit /\ [][QueueOrStackNext]_vars

\* A program that works on one of the four containers.
OthersUnused(used) ==
    /\ used = "map" \/ MapUnused
    /\ used = "list" \/ ListUnused
    /\ used = "queue" \/ QueueUnused
    /\ used = "stack" \/ StackUnused

AnyNext ==
    \/ \E key \in Keys, value \in Values : OthersUnused("map") /\ MapPut(key, value)
    \/ \E key \in Keys : OthersUnused("map") /\ MapGet(key)
    \/ \E key \in Keys : OthersUnused("map") /\ MapRemove(key)
    \/ \E key \in Keys : OthersUnused("map") /\ MapContains(key)
    \/ \E value \in Values : OthersUnused("list") /\ ListAppend(value)
    \/ \E value \in Values : OthersUnused("list") /\ ListPrepend(value)
    \/ \E value \in Values, index \in Indexes :
           OthersUnused("list") /\ ListInsert(value, index)
    \/ \E value \in Values : OthersUnused("list") /\ ListDelete(value)
    \/ \E index \in Indexes : OthersUnused("list") /\ ListPop(index)
    \/ \E index \in Indexes : OthersUnused("list") /\ ListGet(index)
    \/ \E value \in Values : OthersUnused("list") /\ ListContains(value)
    \/ OthersUnused("list") /\ ListLen
    \/ \E value \in Values : OthersUnused("queue") /\ QueueEnqueue(value)
    \/ OthersUnused("queue") /\ QueueDequeue
    \/ OthersUnused("queue") /\ QueuePeek
    \/ OthersUnused("queue") /\ QueueIsEmpty
    \/ OthersUnused("queue") /\ QueueLen
    \/ \E value \in Values : OthersUnused("stack") /\ StackPush(value)
    \/ OthersUnused("stack") /\ StackPop
    \/ OthersUnused("stack") /\ StackPeek
    \/ OthersUnused("stack") /\ StackIsEmpty
    \/ OthersUnused("stack") /\ StackLen

\* Every container as constructed, the map with capacity MaxCapacity.
AnyInit ==
    /\ hashmap = HashMap_init(MaxCapacity)
    /\ ref = [k \in Keys |-> None]
    /\ order = <<>>
    /\ mop = NoOp
    /\ ListInit /\ QueueInit /\ StackInit

SpecAny == AnyInit /\ [][AnyNext]_vars

\* The demonstration program of HashMap.py: a map of capacity 10 and the
\* keys "apple", "banana", "orange" and "strawberry" with the values 1 to 4.
DemoCapacity == 10

apple == StrKey(<<97, 112, 112, 108, 101>>)
banana == StrKey(<<98, 97, 110, 97, 110, 97>>)
orange == StrKey(<<111, 114, 97, 110, 103, 101>>)
strawberry == StrKey(<<115, 116, 114, 97, 119, 98, 101, 114, 114, 121>>)

DemoKeys == <<apple, banana, orange, strawberry>>

DemoKeySet == {DemoKeys[i] : i \in 1..Len(DemoKeys)}

\* The value the demonstration puts under key.
DemoValue(key) == CHOOSE i \in 1..Len(DemoKeys) : DemoKeys[i] = key

DemoInit ==
    /\ hashmap = HashMap_init(DemoCapacity)
    /\ ref = [k \in DemoKeySet |-> None]
    /\ order = <<>>
    /\ mop = NoOp
    /\ ListInit /\ QueueInit /\ StackInit

\* The calls of the demonstration, in any order.
DemoNext ==
    \/ \E key \in DemoKeySet : MapPut(key, DemoValue(key))
    \/ \E key \in DemoKeySet : MapGet(key)
    \/ \E key \in DemoKeySet : MapRemove(key)

SpecDemo == DemoInit /\ [][DemoNext]_vars

\* ------------------------------------------------------------------ queue and stack claims
\* The ids following next from id n reaches, n first, at most fuel of them.
RECURSIVE LinkChain(_, _, _)
LinkChain(nodes, n, fuel) ==
    IF n = None \/ n \notin DOMAIN nodes \/ fuel = 0 THEN <<>>
    ELSE <<n>> \o LinkChain(nodes, nodes[n].next, fuel - 1)

\* The queue's node ids from front on; one more than the nodes there are when
\* the links form a cycle.
QueueChain(q) == LinkChain(q.nodes, q.front, Cardinality(DOMAIN q.nodes) + 1)

QueueContent(q) == [i \in 1..Len(QueueChain(q)) |-> q.nodes[QueueChain(q)[i]].value]

StackChain(st) == LinkChain(st.nodes, st.top, Cardinality(DOMAIN st.nodes) + 1)

StackContent(st) == [i \in 1..Len(StackChain(st)) |-> st.nodes[StackChain(st)[i]].value]

\* C12: the queue is first-in first-out.  A successful dequeue returns the
\* oldest value enqueued and not yet dequeued, peek returns that same value
\* and removes nothing, and len() is the number of enqueues minus the number
\* of successful dequeues; so after enqueue(a); enqueue(b); dequeue() the
\* result is a and peek() returns b.
C12_QueueIsFifo ==
    [][/\ (qop'.name = "dequeue" /\ qop'.err = "none")
            => (qref # <<>> /\ qop'.ret = Head(qref))
       /\ (qop'.name = "peek" /\ qop'.err = "none")
            => (qref # <<>> /\ qop'.ret = Head(qref) /\ queue' = queue)
       /\ Queue_len(queue') = qbalance'
       /\ QueueContent(queue') = qref'
       /\ qref' # <<>> => Queue_peek(queue') = [err |-> "none", ret |-> Head(qref')]
      ]_vars

\* After enqueue(1); enqueue(2); dequeue(): the result is 1 and peek() gives 2.
C12_Witness ==
    /\ qop.name = "dequeue" /\ qop.err = "none" /\ qop.ret = 1
    /\ qref = <<2>>
    /\ Queue_peek(queue).ret = 2
    /\ Queue_len(queue) = 1

\* C13: after every queue operation, the failing ones included, front is
\* null iff rear is null iff size is 0; rear.next is null when rear is not;
\* following next from front visits exactly size nodes, the last of them
\* rear; and size is never negative.
C13_QueueShape ==
    /\ (queue.front = None) <=> (queue.rear = None)
    /\ (queue.rear = None) <=> (queue.size = 0)
    /\ queue.rear # None => queue.nodes[queue.rear].next = None
    /\ Len(QueueChain(queue)) = queue.size
    /\ queue.size > 0 => QueueChain(queue)[queue.size] = queue.rear
    /\ queue.size >= 0

\* A dequeue emptied the queue, and a dequeue of the empty queue failed.
C13_Witness ==
    /\ qop.name = "dequeue" /\ qop.err = "IndexError"
    /\ qbalance = 0 /\ queue.size = 0 /\ queue.rear = None

\* C14: the stack is last-in first-out.  A successful pop returns the value
\* pushed latest and not yet popped, peek returns that same value and removes
\* nothing, and len() is the number of pushes minus the number of successful
\* pops; so after push(a); push(b); pop() the result is b and peek() returns a.
C14_StackIsLifo ==
    [][/\ (sop'.name = "pop" /\ sop'.err = "none")
            => (sref # <<>> /\ sop'.ret = Head(sref))
       /\ (sop'.name = "peek" /\ sop'.err = "none")
            => (sref # <<>> /\ sop'.ret = Head(sref) /\ stack' = stack)
       /\ Stack_len(stack') = sbalance'
       /\ StackContent(stack') = sref'
       /\ sref' # <<>> => Stack_peek(stack') = [err |-> "none", ret |-> Head(sref')]
      ]_vars

\* After push(1); push(2); pop(): the result is 2 and peek() gives 1.
C14_Witness ==
    /\ sop.name = "pop" /\ sop.err = "none" /\ sop.ret = 2
    /\ sref = <<1>>
    /\ Stack_peek(stack).ret = 1
    /\ Stack_len(stack) = 1

\* C15: after every stack operation, the failing ones included, top is null
\* iff size is 0, following next from top visits exactly size nodes, and size
\* is never negative.
C15_StackShape ==
    /\ (stack.top = None) <=> (stack.size = 0)
    /\ Len(StackChain(stack)) = stack.size
    /\ stack.size >= 0

\* A pop emptied the stack, and a pop of the empty stack failed.
C15_Witness ==
    /\ sop.name = "pop" /\ sop.err = "ValueError"
    /\ sbalance = 0 /\ stack.size = 0 /\ stack.top = None

\* C16: dequeue and peek of the queue raise IndexError("Queue is empty"), and
\* pop and peek of the stack raise ValueError("Stack is empty"), exactly when
\* the container is empty, that is when is_empty() is true and len() is 0;
\* in every other state they succeed.
C16_FailsIffEmpty ==
    [][/\ (queueVars' # queueVars /\ qop'.name \in {"dequeue", "peek"})
            => /\ (qop'.err = "IndexError") <=> Queue_is_empty(queue)
               /\ (qop'.err = "none") <=> ~Queue_is_empty(queue)
               /\ Queue_is_empty(queue) <=> (Queue_len(queue) = 0)
       /\ (stackVars' # stackVars /\ sop'.name \in {"pop", "peek"})
            => /\ (sop'.err = "ValueError") <=> Stack_is_empty(stack)
               /\ (sop'.err = "none") <=> ~Stack_is_empty(stack)
               /\ Stack_is_empty(stack) <=> (Stack_len(stack) = 0)
      ]_vars

\* peek failed on a stack that pushes and pops have emptied again.
C16_Witness ==
    /\ sop.name = "peek" /\ sop.err = "ValueError"
    /\ Stack_is_empty(stack) /\ Stack_len(stack) = 0

\* C17: a call that raises leaves its container as it was: a failing get or
\* remove of the map changes no bucket and not size; a failing insert, pop or
\* get of the list changes no node, head or tail; a failing dequeue or peek of
\* the queue and a failing pop or peek of the stack change no node and not size.
C17_FailureChangesNothing ==
    [][/\ (mapVars' # mapVars /\ mop'.err # "none") => hashmap' = hashmap
       /\ (listVars' # listVars /\ lop'.err # "none") => list' = list
       /\ (queueVars' # queueVars /\ qop'.err # "none") => queue' = queue
       /\ (stackVars' # stackVars /\ sop'.err # "none") => stack' = stack
      ]_vars

\* remove raised KeyError on a map that holds another key.
C17_Witness ==
    /\ mop.name = "remove" /\ mop.err = "KeyError"
    /\ HashMap_len(hashmap) > 0

\* C18: in a HashMap of capacity 10, after put("apple", 1), put("banana", 2),
\* put("orange", 3) and put("strawberry", 4) in that order, keys() is
\* ['apple', 'banana', 'orange', 'strawberry'], values() is [1, 2, 3, 4] and
\* items() is [('apple', 1), ('banana', 2), ('orange', 3), ('strawberry', 4)],
\* as the comments of the demonstration say.
C18_DemoOutputAsCommented ==
    (order = DemoKeys /\ \A k \in DemoKeySet : ref[k] = DemoValue(k))
        => /\ HashMap_keys(hashmap) = DemoKeys
           /\ HashMap_values(hashmap) = <<1, 2, 3, 4>>
           /\ HashMap_items(hashmap) =
                  [i \in 1..Len(DemoKeys) |-> <<DemoKeys[i], i>>]

====
